---- MODULE Spec2Model ----
(***************************************************************************)
(* Sales analysis pipeline (src/analise_avancada.py, src/analise.py).      *)
(*                                                                         *)
(* Representation of numbers (all exact, fixed point, non-negative):       *)
(*   money (price, revenue, faturamento)    : thousandths of a currency    *)
(*                                            unit (so 0.01 is 10)         *)
(*   margin_percent                         : whole percent                *)
(*   cost, profit, lucro                    : 1/100000 of a currency unit  *)
(*   means rounded by DataFrame.round(2)    : see each column              *)
(*   date                                   : day number, day 1 is         *)
(*                                            Monday 2024-01-01            *)
(* NaN (a null cell, an undefined statistic) is the number -1, or the      *)
(* string "NaN" in a text column.                                          *)
(***************************************************************************)
EXTENDS Integers, Sequences, FiniteSets, TLC

VARIABLES sales, df, colunas, df_processado, metricas, insights, pc, ret, calls, arquivos

vars == <<sales, df, colunas, df_processado, metricas, insights, pc, ret, calls, arquivos>>

(***************************************************************************)
(* Bounds of the model                                                     *)
(***************************************************************************)
MaxRows == 2
MaxRowsSerie == 5
MaxCalls == 2

(***************************************************************************)
(* Program constants                                                       *)
(***************************************************************************)
Moeda == 1000
NaN == -1
NaNTexto == "NaN"
DataInvalida == 0
Infinito == 2147483647
Janela == 7
MinPeriodos == 1

Colunas == {"date", "product", "region", "price", "quantity"}
ProdutosOrdem == <<"A", "B">>
RegioesOrdem == <<"N", "S">>
dias_ordem == <<"Monday", "Tuesday", "Wednesday", "Thursday", "Friday", "Saturday", "Sunday">>

BinsPreco == <<0, 50 * Moeda, 100 * Moeda, 150 * Moeda, 200 * Moeda>>
LabelsPreco == <<"Baixo", "Medio", "Alto", "Premium">>
BinsPedido == <<0, 100 * Moeda, 500 * Moeda, 1000 * Moeda, Infinito>>
LabelsPedido == <<"Pequeno", "Medio", "Grande", "Muito Grande">>

\* np.random.seed(42); np.random.uniform(20, 60, n): the first draws, in whole percent
MargemSorteada == <<35, 58, 49, 44, 26, 26, 22, 55>>

(***************************************************************************)
(* Sequence helpers                                                        *)
(***************************************************************************)
RECURSIVE SeqSum(_)
SeqSum(s) == IF s = <<>> THEN 0 ELSE Head(s) + SeqSum(Tail(s))

\* the sum of column c of t over the positions in S
RECURSIVE SumAt(_, _, _)
SumAt(t, c, S) ==
    IF S = {} THEN 0
    ELSE LET i == CHOOSE j \in S : TRUE IN t[i][c] + SumAt(t, c, S \ {i})

Range(s) == {s[i] : i \in 1..Len(s)}

\* the function f on 1..n as an explicit tuple
ToSeq(f) == SubSeq(f, 1, Len(f))

\* the elements of t at the positions in S, in the order of t
RECURSIVE TakeFrom(_, _, _)
TakeFrom(t, S, i) ==
    IF i > Len(t) THEN <<>>
    ELSE (IF i \in S THEN <<t[i]>> ELSE <<>>) \o TakeFrom(t, S, i + 1)

Take(t, S) == TakeFrom(t, S, 1)

\* the members of K in the order of the sequence ord (a groupby result is sorted by key)
KeysInOrder(ord, K) == SelectSeq(ord, LAMBDA k : k \in K)

Minimo(S) == CHOOSE x \in S : \A y \in S : x <= y
Maximo(S) == CHOOSE x \in S : \A y \in S : x >= y

\* n/d rounded to the nearest integer, ties to the even one (numpy.round), n >= 0, d > 0
RoundHalfEven(n, d) ==
    LET q == n \div d
        r == n % d
    IN  IF 2 * r < d THEN q
        ELSE IF 2 * r > d THEN q + 1
        ELSE IF q % 2 = 0 THEN q ELSE q + 1

\* .round(2) of the number n/d given in units of 1/unit: the result is in the same
\* units and is a whole number of hundredths
Round2(n, d, unit) == (unit \div 100) * RoundHalfEven(n, d * (unit \div 100))

(***************************************************************************)
(* preparar_dados, step by step                                            *)
(***************************************************************************)
TemNulo(r) == r.date = NaN \/ r.product = NaNTexto \/ r.region = NaNTexto
              \/ r.price = NaN \/ r.quantity = NaN

\* drop_duplicates that removes nothing
drop_duplicates_nada(t) == t

\* DataFrame.drop_duplicates: the first of each set of identical rows is kept
drop_duplicates(t) == Take(t, {i \in 1..Len(t) : \A j \in 1..(i - 1) : t[j] # t[i]})

\* DataFrame.dropna: rows with a null in any column are removed
dropna(t) == SelectSeq(t, LAMBDA r : ~TemNulo(r))

\* pd.to_datetime fails when some text is not a date
DatasValidas(t) == \A i \in 1..Len(t) : t[i].date # DataInvalida

\* pd.cut(x, bins, labels): right-closed bins (bins[i], bins[i+1]], no include_lowest
cut(x, bins, labels) ==
    IF \E i \in 1..Len(labels) : bins[i] < x /\ x <= bins[i + 1]
    THEN labels[CHOOSE i \in 1..Len(labels) : bins[i] < x /\ x <= bins[i + 1]]
    ELSE NaNTexto

\* groupby('product')['revenue'].transform(rolling(window=7, min_periods=1).mean()):
\* the window runs over the rows of the product in the row order of the table.
\* The mean is kept exact, as <<sum, number of observations>>.
rolling_mean(t, i) ==
    LET G == {j \in 1..i : t[j].product = t[i].product}
        W == {j \in G : Cardinality({k \in G : k >= j}) <= Janela}
    IN  IF Cardinality(W) >= MinPeriodos
        THEN <<SumAt(t, "revenue", W), Cardinality(W)>>
        ELSE <<NaN, 0>>

day_name(d) == dias_ordem[((d - 1) % 7) + 1]
month_name(d) == IF d <= 31 THEN "January" ELSE "February"
iso_week(d) == ((d - 1) \div 7) + 1

\* lines 80-113: the derived columns of the row at position i of the cleaned table t
Enriquecer(t, i) ==
    LET r == t[i]
        revenue == r.price * r.quantity
        tr == ToSeq([j \in 1..Len(t) |-> [product |-> t[j].product,
                                          revenue |-> t[j].price * t[j].quantity]])
        margin_percent == MargemSorteada[i]
        cost == r.price * (100 - margin_percent)
    IN  [date |-> r.date, product |-> r.product, region |-> r.region,
         price |-> r.price, quantity |-> r.quantity,
         revenue |-> revenue,
         revenue_ma7 |-> rolling_mean(tr, i),
         day_of_week |-> day_name(r.date),
         month |-> month_name(r.date),
         week_number |-> iso_week(r.date),
         price_category |-> cut(r.price, BinsPreco, LabelsPreco),
         order_value_category |-> cut(revenue, BinsPedido, LabelsPedido),
         margin_percent |-> margin_percent,
         cost |-> cost,
         profit |-> revenue * 100 - cost * r.quantity]

\* lines 65-70: the copy of the raw table after drop_duplicates and dropna
Limpar(t) == dropna(drop_duplicates(t))

\* the enriched table built from the raw table t (all columns present, dates valid)
Preparar(t) == LET l == Limpar(t) IN ToSeq([i \in 1..Len(l) |-> Enriquecer(l, i)])

(***************************************************************************)
(* Aggregation helpers (pandas groupby / sort_values / quantile)           *)
(***************************************************************************)
\* the positions of the rows of t whose column c is k
Grupo(t, c, k) == {i \in 1..Len(t) : t[i][c] = k}

\* the distinct values of column c
Chaves(t, c) == {t[i][c] : i \in 1..Len(t)}

\* Series.std (ddof = 1) of the prices at the positions S: undefined for one
\* observation (division by n - 1 = 0), zero when all are equal; a positive value is
\* irrational in general and is not computed
std(t, c, S) ==
    IF Cardinality(S) < 2 THEN "NaN"
    ELSE IF Cardinality({t[i][c] : i \in S}) = 1 THEN "zero" ELSE "positivo"

\* sort_values(col, ascending=False) of the sequence a of aggregate rows. No kind is
\* given, so the sort is the default quicksort, which is not stable: the rows come out in
\* descending order of col, and rows with equal values in an order that depends on the
\* sort routine and on the number of rows. The set of the tables it can return.
sort_values(a, col) ==
    LET n == Len(a)
        perms == {p \in [1..n -> 1..n] : \A i, j \in 1..n : i # j => p[i] # p[j]}
        desc(p) == \A i \in 1..(n - 1) : a[p[i]][col] >= a[p[i + 1]][col]
    IN  {ToSeq([i \in 1..n |-> a[p[i]]]) : p \in {q \in perms : desc(q)}}

\* the values of column c of t in ascending order, with repetitions
RECURSIVE ValoresOrdenados(_, _, _)
ValoresOrdenados(t, c, lo) ==
    LET resto == {v \in Chaves(t, c) : v >= lo}
    IN  IF resto = {} THEN <<>>
        ELSE LET m == Minimo(resto)
             IN  [i \in 1..Cardinality(Grupo(t, c, m)) |-> m] \o ValoresOrdenados(t, c, m + 1)

\* 4 * Series.quantile(k/4) with linear interpolation, v sorted ascending and not empty:
\* the position is (n - 1) * k / 4, interpolated between its two neighbours
quantile4(v, k) ==
    LET n == Len(v)
        i == ((n - 1) * k) \div 4
        r == ((n - 1) * k) % 4
    IN  IF r = 0 THEN 4 * v[i + 1]
        ELSE (4 - r) * v[i + 1] + r * v[i + 2]

(***************************************************************************)
(* analise_por_produto                                                     *)
(***************************************************************************)
\* the aggregate row with the mean of the revenue under the name of its sum
LinhaProduto_media(t, k) ==
    LET S == Grupo(t, "product", k)
        n == Cardinality(S)
    IN  [chave |-> k,
         qtd_total |-> SumAt(t, "quantity", S),
         qtd_media |-> Round2(100 * SumAt(t, "quantity", S), n, 100),
         num_vendas |-> n,
         faturamento_total |-> Round2(SumAt(t, "revenue", S), n, Moeda),
         faturamento_medio |-> Round2(SumAt(t, "revenue", S), 1, Moeda),
         lucro_total |-> Round2(SumAt(t, "profit", S), 1, 100 * Moeda),
         lucro_medio |-> Round2(SumAt(t, "profit", S), n, 100 * Moeda),
         preco_medio |-> Round2(SumAt(t, "price", S), n, Moeda),
         preco_std |-> std(t, "price", S),
         margem_media |-> Round2(100 * SumAt(t, "margin_percent", S), n, 100)]

\* lines 170-185: the aggregate row of product k, every statistic rounded to 2 decimals.
\* qtd_media is in hundredths, margem_media in hundredths of a percent.
LinhaProduto(t, k) ==
    LET S == Grupo(t, "product", k)
        n == Cardinality(S)
    IN  [chave |-> k,
         qtd_total |-> SumAt(t, "quantity", S),
         qtd_media |-> Round2(100 * SumAt(t, "quantity", S), n, 100),
         num_vendas |-> n,
         faturamento_total |-> Round2(SumAt(t, "revenue", S), 1, Moeda),
         faturamento_medio |-> Round2(SumAt(t, "revenue", S), n, Moeda),
         lucro_total |-> Round2(SumAt(t, "profit", S), 1, 100 * Moeda),
         lucro_medio |-> Round2(SumAt(t, "profit", S), n, 100 * Moeda),
         preco_medio |-> Round2(SumAt(t, "price", S), n, Moeda),
         preco_std |-> std(t, "price", S),
         margem_media |-> Round2(100 * SumAt(t, "margin_percent", S), n, 100)]

\* lines 170-188: the tables that analise_por_produto can return
AnaliseProduto(t) ==
    LET ks == KeysInOrder(ProdutosOrdem, Chaves(t, "product"))
    IN  sort_values(ToSeq([p \in 1..Len(ks) |-> LinhaProduto(t, ks[p])]), "faturamento_total")

\* lines 193-197
InsightsProduto(a) ==
    << [tipo |-> "produto_top", chave |-> a[1].chave, valor |-> a[1].faturamento_total],
       [tipo |-> "produto_pior", chave |-> a[Len(a)].chave,
        valor |-> a[Len(a)].faturamento_total] >>

(***************************************************************************)
(* analise_por_regiao                                                      *)
(***************************************************************************)
\* lines 206-217
LinhaRegiao(t, k) ==
    LET S == Grupo(t, "region", k)
        n == Cardinality(S)
    IN  [chave |-> k,
         faturamento_total |-> Round2(SumAt(t, "revenue", S), 1, Moeda),
         faturamento_medio |-> Round2(SumAt(t, "revenue", S), n, Moeda),
         num_vendas |-> n,
         lucro_total |-> Round2(SumAt(t, "profit", S), 1, 100 * Moeda),
         lucro_medio |-> Round2(SumAt(t, "profit", S), n, 100 * Moeda),
         qtd_total |-> SumAt(t, "quantity", S),
         num_produtos |-> Cardinality({t[i].product : i \in S})]

\* lines 220-222: share of the region in tenths of a percent, NaN when the total is 0
Participacao(a, p) ==
    LET total == SumAt(a, "faturamento_total", 1..Len(a)) \div (Moeda \div 100)
        parte == a[p].faturamento_total \div (Moeda \div 100)
    IN  IF total = 0 THEN NaN ELSE RoundHalfEven(100 * 10 * parte, total)

\* lines 206-224: the tables that analise_por_regiao can return
AnaliseRegiao(t) ==
    LET ks == KeysInOrder(RegioesOrdem, Chaves(t, "region"))
        a == ToSeq([p \in 1..Len(ks) |-> LinhaRegiao(t, ks[p])])
        b == [p \in 1..Len(a) |->
                 [chave |-> a[p].chave,
                  faturamento_total |-> a[p].faturamento_total,
                  faturamento_medio |-> a[p].faturamento_medio,
                  num_vendas |-> a[p].num_vendas,
                  lucro_total |-> a[p].lucro_total,
                  lucro_medio |-> a[p].lucro_medio,
                  qtd_total |-> a[p].qtd_total,
                  num_produtos |-> a[p].num_produtos,
                  participacao |-> Participacao(a, p)]]
    IN  sort_values(ToSeq(b), "faturamento_total")

\* lines 229-232
InsightsRegiao(a) ==
    << [tipo |-> "regiao_lider", chave |-> a[1].chave, valor |-> a[1].participacao] >>

(***************************************************************************)
(* analise_temporal                                                        *)
(***************************************************************************)
\* lines 242-246: groupby('date') sums, then resample('D').sum(): one row per day from
\* the first to the last date with a transaction, an empty day being the sum of nothing
Resample(t) ==
    LET primeiro == Minimo(Chaves(t, "date"))
        ultimo == Maximo(Chaves(t, "date"))
    IN  ToSeq([i \in 1..(ultimo - primeiro + 1) |->
            LET S == Grupo(t, "date", primeiro + i - 1)
            IN  [date |-> primeiro + i - 1,
                 revenue |-> SumAt(t, "revenue", S),
                 quantity |-> SumAt(t, "quantity", S),
                 profit |-> SumAt(t, "profit", S)]])

\* a date range that leaves out its last day
date_range_aberto(t) ==
    LET primeiro == Minimo(Chaves(t, "date"))
        ultimo == Maximo(Chaves(t, "date"))
    IN  ToSeq([i \in 1..(ultimo - primeiro) |-> primeiro + i - 1])

\* lines 249-252: pd.date_range(start=min, end=max)
date_range(t) ==
    LET primeiro == Minimo(Chaves(t, "date"))
        ultimo == Maximo(Chaves(t, "date"))
    IN  ToSeq([i \in 1..(ultimo - primeiro + 1) |-> primeiro + i - 1])

\* line 253: reindex(date_range, fill_value=0)
Reindex(serie, datas) ==
    ToSeq([i \in 1..Len(datas) |->
        IF \E j \in 1..Len(serie) : serie[j].date = datas[i]
        THEN serie[CHOOSE j \in 1..Len(serie) : serie[j].date = datas[i]]
        ELSE [date |-> datas[i], revenue |-> 0, quantity |-> 0, profit |-> 0]])

VendasDiarias(t) == Reindex(Resample(t), date_range(t))

\* Series.pct_change: the change of day i against day i - 1 as the fraction
\* <<difference, previous value>>; the first day has none
pct_change(vd) ==
    ToSeq([i \in 1..(Len(vd) - 1) |-> <<vd[i + 1].revenue - vd[i].revenue, vd[i].revenue>>])

\* a change is NaN when it is 0/0 and infinite when it is x/0 with x > 0
TermoNaN(f) == f[2] = 0 /\ f[1] = 0
TermoInf(f) == f[2] = 0 /\ f[1] # 0

\* line 256: Series.mean() skips NaN and nothing else: the mean of the remaining changes
\* is infinite as soon as one of them is, and NaN when none remains
mean_skipna(fs) ==
    LET validos == SelectSeq(fs, LAMBDA f : ~TermoNaN(f))
    IN  [classe |-> IF validos = <<>> THEN "NaN"
                    ELSE IF \E i \in 1..Len(validos) : TermoInf(validos[i]) THEN "inf"
                    ELSE "finito",
         termos |-> validos]

crescimento_diario(vd) == mean_skipna(pct_change(vd))

\* the weekday aggregate without the reindex: only the weekdays that have rows, in the
\* alphabetical order of the groupby
VendasDiaSemana_semReindex(t) ==
    LET alfabetica == <<"Friday", "Monday", "Saturday", "Sunday", "Thursday", "Tuesday",
                        "Wednesday">>
        ks == KeysInOrder(alfabetica, Chaves(t, "day_of_week"))
    IN  ToSeq([p \in 1..Len(ks) |->
            LET S == Grupo(t, "day_of_week", ks[p])
                n == Cardinality(S)
            IN  [day_of_week |-> ks[p],
                 faturamento_total |-> Round2(SumAt(t, "revenue", S), 1, Moeda),
                 faturamento_medio |-> Round2(SumAt(t, "revenue", S), n, Moeda),
                 num_vendas |-> n]])

\* lines 264-272: groupby('day_of_week') sum, mean, count rounded to 2 decimals and
\* reindexed to the seven weekdays; a weekday without rows is a row of NaN
VendasDiaSemana(t) ==
    ToSeq([p \in 1..Len(dias_ordem) |->
        LET S == Grupo(t, "day_of_week", dias_ordem[p])
            n == Cardinality(S)
        IN  IF n = 0
            THEN [day_of_week |-> dias_ordem[p], faturamento_total |-> NaN,
                  faturamento_medio |-> NaN, num_vendas |-> NaN]
            ELSE [day_of_week |-> dias_ordem[p],
                  faturamento_total |-> Round2(SumAt(t, "revenue", S), 1, Moeda),
                  faturamento_medio |-> Round2(SumAt(t, "revenue", S), n, Moeda),
                  num_vendas |-> n]])

\* line 277: idxmax skips NaN and returns the first label holding the maximum
idxmax(a, col, label) ==
    LET m == Maximo({a[p][col] : p \in 1..Len(a)})
    IN  a[Minimo({p \in 1..Len(a) : a[p][col] = m})][label]

\* line 278
InsightsTemporal(vs) ==
    << [tipo |-> "melhor_dia", chave |-> idxmax(vs, "faturamento_total", "day_of_week"),
        valor |-> NaN] >>

(***************************************************************************)
(* analise_cruzada                                                         *)
(***************************************************************************)
\* pd.pivot_table(values='revenue', index=lin, columns=col, aggfunc='sum', fill_value=0):
\* a row whose column key is null belongs to no cell
pivot_table(t, lin, col, ordLin, ordCol, chavesCol) ==
    [index |-> KeysInOrder(ordLin, Chaves(t, lin)),
     columns |-> KeysInOrder(ordCol, chavesCol),
     values |-> [c \in Chaves(t, lin) \X chavesCol |->
                    SumAt(t, "revenue", Grupo(t, lin, c[1]) \cap Grupo(t, col, c[2]))]]

\* lines 292-299: the columns are the regions present
PivotProdutoRegiao(t) ==
    pivot_table(t, "product", "region", ProdutosOrdem, RegioesOrdem, Chaves(t, "region"))

\* lines 304-311: price_category is categorical, so the columns are its four categories
PivotRegiaoCategoria(t) ==
    pivot_table(t, "region", "price_category", RegioesOrdem, LabelsPreco,
                IF t = <<>> THEN {} ELSE Range(LabelsPreco))

\* the sum of all the cells of a pivot table
SomaPivot(pv) ==
    LET cels == [i \in 1..(Len(pv.index) * Len(pv.columns)) |->
                    pv.values[<<pv.index[((i - 1) \div Len(pv.columns)) + 1],
                                pv.columns[((i - 1) % Len(pv.columns)) + 1]>>]]
    IN  SeqSum(ToSeq(cels))

(***************************************************************************)
(* identificar_padroes                                                     *)
(***************************************************************************)
\* the fences taken as part of the outside
Outliers_naoEstrito(t) ==
    IF t = <<>> THEN <<>>
    ELSE LET v == ValoresOrdenados(t, "revenue", 0)
             Q1 == quantile4(v, 1)
             Q3 == quantile4(v, 3)
             IQR == Q3 - Q1
         IN  SelectSeq(t, LAMBDA r : 8 * r.revenue <= 2 * Q1 - 3 * IQR
                                     \/ 8 * r.revenue >= 2 * Q3 + 3 * IQR)

\* lines 340-346: the rows outside the Tukey fences, compared in eighths of the unit:
\* 8 * (Q1 - 1.5 * IQR) = 2 * 4Q1 - 3 * (4Q3 - 4Q1)
Outliers(t) ==
    IF t = <<>> THEN <<>>
    ELSE LET v == ValoresOrdenados(t, "revenue", 0)
             Q1 == quantile4(v, 1)
             Q3 == quantile4(v, 3)
             IQR == Q3 - Q1
         IN  SelectSeq(t, LAMBDA r : 8 * r.revenue < 2 * Q1 - 3 * IQR
                                     \/ 8 * r.revenue > 2 * Q3 + 3 * IQR)

\* the outlier insight appended whether or not an outlier was found
InsightsPadroes_sempre(o) ==
    << [tipo |-> "outliers", chave |-> "", valor |-> Len(o)] >>

\* lines 348-350
InsightsPadroes(o) ==
    IF Len(o) > 0 THEN << [tipo |-> "outliers", chave |-> "", valor |-> Len(o)] >> ELSE <<>>

(***************************************************************************)
(* calcular_metricas_gerais                                                *)
(***************************************************************************)
\* lines 121-144: means and ratios are kept exact as <<numerator, denominator>>
MetricasGerais(t) ==
    LET todos == 1..Len(t)
    IN  [total_vendas |-> Len(t),
         total_produtos_vendidos |-> SumAt(t, "quantity", todos),
         total_faturamento |-> SumAt(t, "revenue", todos),
         total_lucro |-> SumAt(t, "profit", todos),
         ticket_medio |-> <<SumAt(t, "revenue", todos), Len(t)>>,
         quantidade_media_por_venda |-> <<SumAt(t, "quantity", todos), Len(t)>>,
         preco_medio |-> <<SumAt(t, "price", todos), Len(t)>>,
         margem_media |-> <<SumAt(t, "margin_percent", todos), Len(t)>>,
         vendas_por_dia |-> <<Len(t), Cardinality(Chaves(t, "date"))>>,
         faturamento_por_dia |-> <<SumAt(t, "revenue", todos), Cardinality(Chaves(t, "date"))>>,
         num_produtos |-> Cardinality(Chaves(t, "product")),
         num_regioes |-> Cardinality(Chaves(t, "region")),
         lucratividade |-> <<SumAt(t, "profit", todos), SumAt(t, "revenue", todos)>>]

(***************************************************************************)
(* Inputs: the content of sales.csv                                        *)
(***************************************************************************)
\* the tables of 1 to n rows drawn from the set of rows L
Tabelas(L, n) == UNION {[1..k -> L] : k \in 1..n}

\* rows of two products and two regions, with a sub-cent price or a whole one
LinhasGrupos ==
    [date : {1}, product : {"A", "B"}, region : {"N", "S"},
     price : {4, 50 * Moeda}, quantity : {1}]

\* rows that differ in price (zero, on a bin edge, above the last bin) and quantity
LinhasPrecos ==
    [date : {1}, product : {"A"}, region : {"N"},
     price : {0, 50 * Moeda, 250 * Moeda}, quantity : {1, 2}]

\* rows of one product on different days, some with no revenue
LinhasTempo ==
    [date : {1, 2, 4}, product : {"A"}, region : {"N"},
     price : {10 * Moeda}, quantity : {0, 2}]

\* rows on a Monday, the Sunday after it and the next Monday, with a sub-cent price
LinhasSemana ==
    [date : {1, 7, 8}, product : {"A"}, region : {"N"},
     price : {10 * Moeda + 4}, quantity : {1, 2}]

\* rows with a null cell or with a text that is not a date
LinhasNulos ==
    [date : {8, DataInvalida}, product : {"B", NaNTexto}, region : {"S"},
     price : {15 * Moeda}, quantity : {3, NaN}]

\* one row per day: first some rows of value 10, then some of value 1000
PrecosSerie ==
    {ToSeq([i \in 1..n |-> IF i <= a THEN 10 * Moeda ELSE 1000 * Moeda]) :
        a \in 0..MaxRowsSerie, n \in 1..MaxRowsSerie}

LinhasSerie(ps) ==
    ToSeq([i \in 1..Len(ps) |-> [date |-> i, product |-> "A", region |-> "N",
                                 price |-> ps[i], quantity |-> 1]])

LinhaExemplo == [date |-> 1, product |-> "A", region |-> "N", price |-> 20 * Moeda, quantity |-> 1]

TabelasSerie == {LinhasSerie(ps) : ps \in PrecosSerie}

\* a file with a header of all the columns and at least one row
Arquivos(T) == {[existe |-> TRUE, colunas |-> Colunas, linhas |-> t] : t \in T}

\* a file whose header lacks a column (its cells are never read), and no file at all
ArquivosFalhos ==
    {[existe |-> TRUE, colunas |-> Colunas \ {c}, linhas |-> <<LinhaExemplo>>] : c \in Colunas}
    \cup {[existe |-> FALSE, colunas |-> {}, linhas |-> <<>>]}

EntradasGrupos == Arquivos(Tabelas(LinhasGrupos, MaxRows))
EntradasPrecos == Arquivos(Tabelas(LinhasPrecos, MaxRows))
EntradasTempo == Arquivos(Tabelas(LinhasTempo, MaxRows))
EntradasNulos == Arquivos(Tabelas(LinhasNulos, MaxRows))
EntradasSemana == Arquivos(Tabelas(LinhasSemana, MaxRows))
EntradasFalhas == EntradasNulos \cup ArquivosFalhos
EntradasSerie == Arquivos(TabelasSerie)

Entradas ==
    EntradasGrupos \cup EntradasPrecos \cup EntradasTempo \cup EntradasNulos
    \cup EntradasSemana \cup EntradasSerie \cup ArquivosFalhos

(***************************************************************************)
(* The object: __init__ (lines 36-43)                                      *)
(***************************************************************************)
\* df and df_processado are None, metricas is {} and insights is [] (None and {} are
\* written <<>>)
InitCom(E) ==
    /\ sales \in E
    /\ df = <<>>
    /\ colunas = {}
    /\ df_processado = <<>>
    /\ metricas = <<>>
    /\ insights = <<>>
    /\ pc = "novo"
    /\ ret = [op |-> "", erro |-> ""]
    /\ calls = 0
    /\ arquivos = {}

Init == InitCom(Entradas)
InitGrupos == InitCom(EntradasGrupos)
InitTempo == InitCom(EntradasTempo)
InitNulos == InitCom(EntradasNulos)
InitSerie == InitCom(EntradasSerie)
InitSemana == InitCom(EntradasSemana)
InitFalhas == InitCom(EntradasFalhas)

\* lines 45-58: any failure is printed and raised again
carregar_dados ==
    /\ pc = "novo"
    /\ IF ~sales.existe
       THEN /\ pc' = "falhou"
            /\ ret' = [op |-> "carregar_dados", erro |-> "FileNotFoundError"]
            /\ UNCHANGED <<df, colunas>>
       ELSE /\ df' = sales.linhas
            /\ colunas' = sales.colunas
            /\ IF "date" \in sales.colunas
               THEN pc' = "carregado" /\ UNCHANGED ret
               ELSE pc' = "falhou" /\ ret' = [op |-> "carregar_dados", erro |-> "KeyError"]
    /\ UNCHANGED <<sales, df_processado, metricas, insights, calls, arquivos>>

\* preparar_dados that goes on with the cleaned table when a date cannot be parsed
preparar_dados_tolerante ==
    /\ pc = "carregado"
    /\ IF ~DatasValidas(Limpar(df))
       THEN /\ df_processado' = Limpar(df)
            /\ pc' = "pronto"
            /\ ret' = [op |-> "preparar_dados", erro |-> "ValueError"]
       ELSE IF ~({"price", "quantity", "product"} \subseteq colunas)
       THEN /\ df_processado' = Limpar(df)
            /\ pc' = "falhou"
            /\ ret' = [op |-> "preparar_dados", erro |-> "KeyError"]
       ELSE /\ df_processado' = Preparar(df)
            /\ pc' = "pronto"
            /\ UNCHANGED ret
    /\ UNCHANGED <<sales, df, colunas, metricas, insights, calls, arquivos>>

\* lines 60-115: the copy is cleaned in place before the date conversion, which can fail,
\* as can the reading of a column that the file lacks
preparar_dados ==
    /\ pc = "carregado"
    /\ IF ~DatasValidas(Limpar(df))
       THEN /\ df_processado' = Limpar(df)
            /\ pc' = "falhou"
            /\ ret' = [op |-> "preparar_dados", erro |-> "ValueError"]
       ELSE IF ~({"price", "quantity", "product"} \subseteq colunas)
       THEN /\ df_processado' = Limpar(df)
            /\ pc' = "falhou"
            /\ ret' = [op |-> "preparar_dados", erro |-> "KeyError"]
       ELSE /\ df_processado' = Preparar(df)
            /\ pc' = "pronto"
            /\ UNCHANGED ret
    /\ UNCHANGED <<sales, df, colunas, metricas, insights, calls, arquivos>>

(***************************************************************************)
(* Calls of the methods: by a caller of the ready object, or as a stage of *)
(* executar_analise_completa                                               *)
(***************************************************************************)
Chamavel(estagio) == (pc = "pronto" /\ calls < MaxCalls) \/ pc = estagio

\* where control goes after the method: back to the caller, or to the next stage, or,
\* when a stage raised, to the except clause of main (lines 618-621)
Retorno(proximo, erro) ==
    /\ pc' = IF pc = "pronto" THEN "pronto" ELSE IF erro # "" THEN "falhou" ELSE proximo
    /\ calls' = IF pc = "pronto" THEN calls + 1 ELSE calls

TemRegiao == "region" \in colunas
Vazia == df_processado = <<>>

\* line 577-584: main calls it on the object it has just built
executar_analise_completa ==
    /\ pc = "pronto"
    /\ calls = 0
    /\ pc' = "exec_metricas"
    /\ UNCHANGED <<sales, df, colunas, df_processado, metricas, insights, ret, calls, arquivos>>

\* lines 117-163: 0 / 0 rows per day raises on an empty table
calcular_metricas_gerais ==
    /\ Chamavel("exec_metricas")
    /\ LET erro == IF Vazia THEN "ZeroDivisionError"
                   ELSE IF ~TemRegiao THEN "KeyError" ELSE ""
       IN  /\ metricas' = IF erro = "" THEN MetricasGerais(df_processado) ELSE metricas
           /\ ret' = IF erro = ""
                     THEN [op |-> "calcular_metricas_gerais", erro |-> "",
                           valor |-> MetricasGerais(df_processado)]
                     ELSE [op |-> "calcular_metricas_gerais", erro |-> erro]
           /\ Retorno("exec_produto", erro)
    /\ UNCHANGED <<sales, df, colunas, df_processado, insights, arquivos>>

\* lines 165-199: index[0] raises on an empty table
analise_por_produto ==
    /\ Chamavel("exec_produto")
    /\ LET erro == IF Vazia THEN "IndexError" ELSE ""
       IN  /\ \E a \in (IF erro = "" THEN AnaliseProduto(df_processado) ELSE {<<>>}) :
                 /\ insights' = IF erro = "" THEN insights \o InsightsProduto(a) ELSE insights
                 /\ ret' = IF erro = ""
                           THEN [op |-> "analise_por_produto", erro |-> "", valor |-> a]
                           ELSE [op |-> "analise_por_produto", erro |-> erro]
           /\ Retorno("exec_regiao", erro)
    /\ UNCHANGED <<sales, df, colunas, df_processado, metricas, arquivos>>

\* lines 201-234
analise_por_regiao ==
    /\ Chamavel("exec_regiao")
    /\ LET erro == IF ~TemRegiao THEN "KeyError" ELSE IF Vazia THEN "IndexError" ELSE ""
       IN  /\ \E a \in (IF erro = "" THEN AnaliseRegiao(df_processado) ELSE {<<>>}) :
                 /\ insights' = IF erro = "" THEN insights \o InsightsRegiao(a) ELSE insights
                 /\ ret' = IF erro = ""
                           THEN [op |-> "analise_por_regiao", erro |-> "", valor |-> a]
                           ELSE [op |-> "analise_por_regiao", erro |-> erro]
           /\ Retorno("exec_temporal", erro)
    /\ UNCHANGED <<sales, df, colunas, df_processado, metricas, arquivos>>

\* lines 236-283: date_range raises on an empty table; crescimento_diario is printed
analise_temporal ==
    /\ Chamavel("exec_temporal")
    /\ LET erro == IF Vazia THEN "ValueError" ELSE ""
       IN  /\ insights' = IF erro = ""
                          THEN insights \o InsightsTemporal(VendasDiaSemana(df_processado))
                          ELSE insights
           /\ ret' = IF erro = ""
                     THEN [op |-> "analise_temporal", erro |-> "",
                           vendas_diarias |-> VendasDiarias(df_processado),
                           vendas_dia_semana |-> VendasDiaSemana(df_processado),
                           crescimento_diario |->
                               crescimento_diario(VendasDiarias(df_processado))]
                     ELSE [op |-> "analise_temporal", erro |-> erro]
           /\ Retorno("exec_cruzada", erro)
    /\ UNCHANGED <<sales, df, colunas, df_processado, metricas, arquivos>>

\* lines 285-317
analise_cruzada ==
    /\ Chamavel("exec_cruzada")
    /\ LET erro == IF ~TemRegiao THEN "KeyError" ELSE ""
       IN  /\ ret' = IF erro = ""
                     THEN [op |-> "analise_cruzada", erro |-> "",
                           produto_regiao |-> PivotProdutoRegiao(df_processado),
                           regiao_categoria |-> PivotRegiaoCategoria(df_processado)]
                     ELSE [op |-> "analise_cruzada", erro |-> erro]
           /\ Retorno("exec_padroes", erro)
    /\ UNCHANGED <<sales, df, colunas, df_processado, metricas, insights, arquivos>>

\* identificar_padroes that keeps only the rows that are not outliers
identificar_padroes_removendo ==
    /\ Chamavel("exec_padroes")
    /\ LET erro == IF ~TemRegiao THEN "KeyError" ELSE ""
           fora == Outliers(df_processado)
       IN  /\ insights' = IF erro = "" THEN insights \o InsightsPadroes(fora) ELSE insights
           /\ df_processado' = IF erro = ""
                                THEN SelectSeq(df_processado, LAMBDA r : r \notin Range(fora))
                                ELSE df_processado
           /\ ret' = IF erro = ""
                     THEN [op |-> "identificar_padroes", erro |-> "", outliers |-> fora]
                     ELSE [op |-> "identificar_padroes", erro |-> erro]
           /\ Retorno("exec_visualizacoes", erro)
    /\ UNCHANGED <<sales, df, colunas, metricas, arquivos>>

\* lines 319-355: the method returns nothing; the outlier rows it selects are kept in ret.
\* The tickets, margins, weekly growth and correlations are only printed.
identificar_padroes ==
    /\ Chamavel("exec_padroes")
    /\ LET erro == IF ~TemRegiao THEN "KeyError" ELSE ""
       IN  /\ insights' = IF erro = ""
                          THEN insights \o InsightsPadroes(Outliers(df_processado))
                          ELSE insights
           /\ ret' = IF erro = ""
                     THEN [op |-> "identificar_padroes", erro |-> "",
                           outliers |-> Outliers(df_processado)]
                     ELSE [op |-> "identificar_padroes", erro |-> erro]
           /\ Retorno("exec_visualizacoes", erro)
    /\ UNCHANGED <<sales, df, colunas, df_processado, metricas, arquivos>>

\* lines 357-475: the static dashboard is saved at line 425, then line 462 reads the
\* name correlacao, which this method never binds. On an empty table the plots before
\* line 425 may or may not fail.
gerar_visualizacoes ==
    /\ Chamavel("exec_visualizacoes")
    /\ LET erro == IF ~TemRegiao THEN "KeyError" ELSE "NameError"
       IN  /\ \E salvo \in (IF ~TemRegiao THEN {FALSE} ELSE IF Vazia THEN BOOLEAN ELSE {TRUE}) :
                 arquivos' = IF salvo THEN arquivos \cup {"dashboard_vendas.png"} ELSE arquivos
           /\ ret' = [op |-> "gerar_visualizacoes", erro |-> erro]
           /\ Retorno("exec_relatorio", erro)
    /\ UNCHANGED <<sales, df, colunas, df_processado, metricas, insights>>

\* lines 477-537: the text lists the insights collected so far, then both analyses are
\* run again and the file is written
gerar_relatorio ==
    /\ Chamavel("exec_relatorio")
    /\ LET erro == IF Vazia THEN "IndexError" ELSE IF ~TemRegiao THEN "KeyError" ELSE ""
       IN  /\ \E a \in (IF Vazia THEN {<<>>} ELSE AnaliseProduto(df_processado)),
                  b \in (IF erro # "" THEN {<<>>} ELSE AnaliseRegiao(df_processado)) :
                 /\ insights' = IF Vazia THEN insights
                                ELSE IF ~TemRegiao THEN insights \o InsightsProduto(a)
                                ELSE insights \o InsightsProduto(a) \o InsightsRegiao(b)
                 /\ ret' = IF erro = ""
                           THEN [op |-> "gerar_relatorio", erro |-> "",
                                 valor |-> [metricas |-> metricas, insights |-> insights,
                                            produto |-> a, regiao |-> b]]
                           ELSE [op |-> "gerar_relatorio", erro |-> erro]
           /\ arquivos' = IF erro = "" THEN arquivos \cup {"relatorio_analise.md"} ELSE arquivos
           /\ Retorno("exec_exportar", erro)
    /\ UNCHANGED <<sales, df, colunas, df_processado, metricas>>

\* the files written by exportar_resultados up to the point it stops
ArquivosExportados(formatos, erro) ==
    (IF "csv" \in formatos THEN {"dados_processados.csv"} ELSE {})
    \cup (IF "csv" \in formatos /\ erro \in {"", "KeyError"} THEN {"analise_produto.csv"} ELSE {})
    \cup (IF "csv" \in formatos /\ erro = "" THEN {"analise_regiao.csv"} ELSE {})
    \cup (IF "excel" \in formatos /\ erro = "" THEN {"resultados_completos.xlsx"} ELSE {})

\* line 539: the default of the parameter, which is also what line 592 passes
FormatosPadrao == {"csv", "excel"}

\* lines 539-575; executar_analise_completa ends after it (lines 592-605)
exportar_resultados ==
    /\ Chamavel("exec_exportar")
    /\ \E formatos \in {FormatosPadrao} :
         LET erro == IF Vazia THEN "IndexError" ELSE IF ~TemRegiao THEN "KeyError" ELSE ""
         IN  /\ \E a \in (IF Vazia THEN {<<>>} ELSE AnaliseProduto(df_processado)),
                    b \in (IF erro # "" THEN {<<>>} ELSE AnaliseRegiao(df_processado)) :
                   insights' = IF Vazia THEN insights
                               ELSE IF ~TemRegiao THEN insights \o InsightsProduto(a)
                               ELSE insights \o InsightsProduto(a) \o InsightsRegiao(b)
             /\ arquivos' = arquivos \cup ArquivosExportados(formatos, erro)
             /\ ret' = [op |-> "exportar_resultados", erro |-> erro]
             /\ Retorno("concluido", erro)
    /\ UNCHANGED <<sales, df, colunas, df_processado, metricas>>

Next ==
    \/ carregar_dados
    \/ preparar_dados
    \/ executar_analise_completa
    \/ calcular_metricas_gerais
    \/ analise_por_produto
    \/ analise_por_regiao
    \/ analise_temporal
    \/ analise_cruzada
    \/ identificar_padroes
    \/ gerar_visualizacoes
    \/ gerar_relatorio
    \/ exportar_resultados

Spec == Init /\ [][Next]_vars
SpecGrupos == InitGrupos /\ [][Next]_vars
SpecTempo == InitTempo /\ [][Next]_vars
SpecNulos == InitNulos /\ [][Next]_vars
SpecSerie == InitSerie /\ [][Next]_vars
SpecSemana == InitSemana /\ [][Next]_vars
SpecFalhas == InitFalhas /\ [][Next]_vars

(***************************************************************************)
(* Properties                                                              *)
(***************************************************************************)
Total(t, c) == SumAt(t, c, 1..Len(t))
Receitas(t) == ToSeq([i \in 1..Len(t) |-> t[i].revenue])
Pronto == pc = "pronto"
Retornou(op) == ret.op = op /\ ret.erro = ""

\* C1: the cells of every cross-tabulation built by analise_cruzada (product x region,
\* region x price category) sum to the revenue of the whole enriched table
C1_SomaDasCelulas ==
    Retornou("analise_cruzada") =>
        /\ SomaPivot(ret.produto_regiao) = Total(df_processado, "revenue")
        /\ SomaPivot(ret.regiao_categoria) = Total(df_processado, "revenue")

\* the mean of the revenue of row i and of at most the 6 rows of its product that precede
\* it by date
MediaPorData(t, i) ==
    LET G == {j \in 1..Len(t) : t[j].product = t[i].product /\ t[j].date <= t[i].date}
        W == {j \in G : Cardinality({k \in G : t[k].date >= t[j].date}) <= Janela}
    IN  <<SumAt(t, "revenue", W), Cardinality(W)>>

DatasDistintas(t) ==
    \A i, j \in 1..Len(t) : (i # j /\ t[i].product = t[j].product) => t[i].date # t[j].date

Permutacoes(t) ==
    {ToSeq([i \in 1..Len(t) |-> t[f[i]]]) :
        f \in {g \in [1..Len(t) -> 1..Len(t)] : \A a, b \in 1..Len(t) : a # b => g[a] # g[b]}}

Transacao(r) == <<r.date, r.product, r.region, r.price, r.quantity>>

\* C2: revenue_ma7 of a row is the mean of the revenue of the row and of at most the 6
\* rows of the same product before it in date order, and any permutation of the input
\* gives every transaction the same revenue_ma7 (stated for tables in which the rows of
\* a product have different dates, where the date order is unique)
C2_MediaMovelPorData ==
    (Pronto /\ colunas = Colunas /\ DatasDistintas(df_processado)) =>
        /\ \A i \in 1..Len(df_processado) :
              df_processado[i].revenue_ma7 = MediaPorData(df_processado, i)
        /\ \A t2 \in Permutacoes(df) :
              LET e2 == Preparar(t2)
              IN  \A i \in 1..Len(e2), j \in 1..Len(df_processado) :
                      Transacao(e2[i]) = Transacao(df_processado[j])
                      => e2[i].revenue_ma7[1] * df_processado[j].revenue_ma7[2]
                         = df_processado[j].revenue_ma7[1] * e2[i].revenue_ma7[2]

\* the column the aggregate of the last call is grouped by
ColunaDe(op) == IF op = "analise_por_produto" THEN "product" ELSE "region"

UmaLinhaPorChave(a, t, c) ==
    /\ Len(a) = Cardinality(Chaves(t, c))
    /\ {a[p].chave : p \in 1..Len(a)} = Chaves(t, c)

RECURSIVE SomaArredondada(_, _, _)
SomaArredondada(t, c, K) ==
    IF K = {} THEN 0
    ELSE LET k == CHOOSE x \in K : TRUE
         IN  RoundHalfEven(SumAt(t, "revenue", Grupo(t, c, k)), Moeda \div 100) * (Moeda \div 100)
             + SomaArredondada(t, c, K \ {k})

\* C3 as stated: the per-product and per-region aggregates have one row per distinct key,
\* their faturamento_total sums to the revenue of the table and their num_vendas to its
\* number of rows
C3_SomaIgualAoTotal ==
    (Retornou("analise_por_produto") \/ Retornou("analise_por_regiao")) =>
        /\ UmaLinhaPorChave(ret.valor, df_processado, ColunaDe(ret.op))
        /\ Total(ret.valor, "faturamento_total") = Total(df_processado, "revenue")
        /\ Total(ret.valor, "num_vendas") = Len(df_processado)

\* C3 amended: one row per distinct key, num_vendas sums to the number of rows, and
\* faturamento_total sums to the sum of the revenue of each group rounded to 2 decimals,
\* which is the revenue of the table when every revenue is a whole number of hundredths
C3_SomaDosArredondados ==
    (Retornou("analise_por_produto") \/ Retornou("analise_por_regiao")) =>
        /\ UmaLinhaPorChave(ret.valor, df_processado, ColunaDe(ret.op))
        /\ Total(ret.valor, "num_vendas") = Len(df_processado)
        /\ Total(ret.valor, "faturamento_total")
           = SomaArredondada(df_processado, ColunaDe(ret.op),
                             Chaves(df_processado, ColunaDe(ret.op)))
        /\ (\A i \in 1..Len(df_processado) : df_processado[i].revenue % (Moeda \div 100) = 0)
           => Total(ret.valor, "faturamento_total") = Total(df_processado, "revenue")

C3_Witness ==
    /\ Retornou("analise_por_produto")
    /\ Len(ret.valor) = 2
    /\ \E i \in 1..Len(df_processado) : df_processado[i].revenue % (Moeda \div 100) # 0
    /\ Total(ret.valor, "faturamento_total") # Total(df_processado, "revenue")

\* C4: the day-over-day growth leaves out every change whose previous day has no
\* revenue, so it is finite whenever a day with revenue is followed by another day
C4_CrescimentoFinito ==
    Retornou("analise_temporal") =>
        /\ \A k \in 1..Len(ret.crescimento_diario.termos) :
              ret.crescimento_diario.termos[k][2] # 0
        /\ (\E i \in 1..(Len(ret.vendas_diarias) - 1) : ret.vendas_diarias[i].revenue # 0)
           => ret.crescimento_diario.classe = "finito"

\* the rows of t of day d, and the sum of one of their columns
DoDia(t, d) == SelectSeq(t, LAMBDA r : r.date = d)
SomaDoDia(t, d, c) == SeqSum(ToSeq([i \in 1..Len(DoDia(t, d)) |-> DoDia(t, d)[i][c]]))

\* C5: vendas_diarias has one row per calendar day from the first to the last date, in
\* ascending order; each carries the sums of revenue, quantity and profit of the rows of
\* that day, which are 0 for a day without rows
C5_SerieDiariaCompleta ==
    Retornou("analise_temporal") =>
        LET vd == ret.vendas_diarias
            primeiro == Minimo(Chaves(df_processado, "date"))
            ultimo == Maximo(Chaves(df_processado, "date"))
        IN  /\ Len(vd) = ultimo - primeiro + 1
            /\ \A i \in 1..Len(vd) :
                  /\ vd[i].date = primeiro + i - 1
                  /\ vd[i].revenue = SomaDoDia(df_processado, vd[i].date, "revenue")
                  /\ vd[i].quantity = SomaDoDia(df_processado, vd[i].date, "quantity")
                  /\ vd[i].profit = SomaDoDia(df_processado, vd[i].date, "profit")
                  /\ DoDia(df_processado, vd[i].date) = <<>>
                     => vd[i].revenue = 0 /\ vd[i].quantity = 0 /\ vd[i].profit = 0

C5_Witness ==
    /\ Retornou("analise_temporal")
    /\ Len(ret.vendas_diarias) = 4
    /\ \E i \in 1..Len(ret.vendas_diarias) :
          DoDia(df_processado, ret.vendas_diarias[i].date) = <<>>
    /\ \E i \in 1..Len(ret.vendas_diarias) : ret.vendas_diarias[i].profit > 0

\* C6: in the per-product aggregate a group of exactly one row has standard deviation 0
C6_DesvioDeUmaLinha ==
    Retornou("analise_por_produto") =>
        \A p \in 1..Len(ret.valor) :
            ret.valor[p].num_vendas = 1 => ret.valor[p].preco_std = "zero"

\* C7: every enriched row with a non-negative price has one of the four price categories
\* and one of the four order value categories, a value on a breakpoint being in the bin
\* it closes
C7_TodaLinhaCategorizada ==
    (Pronto /\ colunas = Colunas) =>
        \A i \in 1..Len(df_processado) :
            LET r == df_processado[i]
            IN  r.price >= 0 =>
                  /\ r.price_category \in Range(LabelsPreco)
                  /\ r.order_value_category \in Range(LabelsPedido)
                  /\ \A b \in 1..Len(LabelsPreco) :
                        r.price = BinsPreco[b + 1] => r.price_category = LabelsPreco[b]
                  /\ \A b \in 1..Len(LabelsPedido) :
                        r.revenue = BinsPedido[b + 1] => r.order_value_category = LabelsPedido[b]

\* the rows of the file that have no null cell
Completas(t) == {r \in Range(t) : ~TemNulo(r)}

\* C8: after preparar_dados the enriched table has exactly one row for each distinct row
\* of the input that has no null cell
C8_UmaLinhaPorTransacao ==
    (Pronto /\ colunas = Colunas) =>
        /\ Len(df_processado) = Cardinality(Completas(df))
        /\ \A r \in Completas(df) :
              Cardinality({i \in 1..Len(df_processado) :
                              Transacao(df_processado[i]) = Transacao(r)}) = 1
        /\ \A i \in 1..Len(df_processado) :
              \E r \in Completas(df) : Transacao(df_processado[i]) = Transacao(r)

C8_Witness ==
    /\ Pronto
    /\ Len(df) = 2
    /\ df[1] = df[2]
    /\ Len(df_processado) = 1

\* C9: once preparar_dados has finished, no call of a method changes the enriched table
\* or the raw table
C9_TabelasInalteradas ==
    [][(pc # "novo" /\ pc # "carregado") => (df_processado' = df_processado /\ df' = df)]_vars

C9_Witness ==
    /\ Pronto
    /\ calls = 2
    /\ Retornou("identificar_padroes")
    /\ Len(ret.outliers) > 0
    /\ Len(insights) > 1
    /\ Len(df_processado) = Len(df)

TodosIguais(t) == Cardinality(Chaves(t, "revenue")) <= 1

\* C10: the outlier set holds the rows strictly outside the fences: it is empty when all
\* the revenues are equal, revenues 10, 10, 10, 10, 1000 have 1000 as their only outlier,
\* and an outlier is above (or below) more than 3/4 of the other rows
C10_ForaDasCercas ==
    Retornou("identificar_padroes") =>
        LET t == df_processado
            o == ret.outliers
            n == Len(t)
        IN  /\ \A k \in 1..Len(o) : o[k] \in Range(t)
            /\ TodosIguais(t) => o = <<>>
            /\ Receitas(t) = <<10 * Moeda, 10 * Moeda, 10 * Moeda, 10 * Moeda, 1000 * Moeda>>
               => (Len(o) = 1 /\ o[1].revenue = 1000 * Moeda)
            /\ \A k \in 1..Len(o) :
                  \/ 4 * Cardinality({i \in 1..n : t[i].revenue < o[k].revenue}) > 3 * (n - 1)
                  \/ 4 * Cardinality({i \in 1..n : t[i].revenue > o[k].revenue}) > 3 * (n - 1)

C10_Witness ==
    /\ Retornou("identificar_padroes")
    /\ Receitas(df_processado) = <<10 * Moeda, 10 * Moeda, 10 * Moeda, 10 * Moeda, 1000 * Moeda>>
    /\ Len(ret.outliers) = 1
    /\ ret.outliers[1].revenue = 1000 * Moeda

\* the place of key k in the natural order of its column
Posicao(ord, k) == CHOOSE p \in 1..Len(ord) : ord[p] = k

OrdemDe(op) == IF op = "analise_por_produto" THEN ProdutosOrdem ELSE RegioesOrdem

\* C11: the rows of the per-product and per-region aggregates are in descending order of
\* faturamento_total, and two keys with the same faturamento_total are in the natural
\* order of the keys
C11_OrdemDecrescenteEPorChave ==
    (Retornou("analise_por_produto") \/ Retornou("analise_por_regiao")) =>
        \A i \in 1..(Len(ret.valor) - 1) :
            \/ ret.valor[i].faturamento_total > ret.valor[i + 1].faturamento_total
            \/ /\ ret.valor[i].faturamento_total = ret.valor[i + 1].faturamento_total
               /\ Posicao(OrdemDe(ret.op), ret.valor[i].chave)
                  < Posicao(OrdemDe(ret.op), ret.valor[i + 1].chave)

\* the enriched rows that fall on the weekday d
DoDiaDaSemana(t, d) == SelectSeq(t, LAMBDA r : r.day_of_week = d)

SeteDiasEmOrdem(vs) ==
    /\ Len(vs) = 7
    /\ \A p \in 1..7 : vs[p].day_of_week = dias_ordem[p]

\* C12 as stated: the weekday aggregate has the 7 weekdays from Monday to Sunday, and a
\* weekday with transactions carries the sum, the mean and the count of the revenue of
\* the rows that fall on it
C12_SeteDiasComSomaEMedia ==
    Retornou("analise_temporal") =>
        /\ SeteDiasEmOrdem(ret.vendas_dia_semana)
        /\ \A p \in 1..7 :
              LET linhas == DoDiaDaSemana(df_processado, dias_ordem[p])
                  v == ret.vendas_dia_semana[p]
              IN  linhas # <<>> =>
                      /\ v.num_vendas = Len(linhas)
                      /\ v.faturamento_total = Total(linhas, "revenue")
                      /\ v.faturamento_medio * Len(linhas) = Total(linhas, "revenue")

\* C12 amended: the 7 weekdays from Monday to Sunday, and a weekday with transactions
\* carries the count of the rows that fall on it and the sum and the mean of their
\* revenue, each rounded to 2 decimals
C12_SeteDiasArredondados ==
    Retornou("analise_temporal") =>
        /\ SeteDiasEmOrdem(ret.vendas_dia_semana)
        /\ \A p \in 1..7 :
              LET linhas == DoDiaDaSemana(df_processado, dias_ordem[p])
                  v == ret.vendas_dia_semana[p]
                  centesimo == Moeda \div 100
              IN  linhas # <<>> =>
                      /\ v.num_vendas = Len(linhas)
                      /\ v.faturamento_total
                         = centesimo * RoundHalfEven(Total(linhas, "revenue"), centesimo)
                      /\ v.faturamento_medio
                         = centesimo * RoundHalfEven(Total(linhas, "revenue"),
                                                     centesimo * Len(linhas))

\* two Mondays of different weeks are one weekday, the other weekdays have no rows, and
\* the rounding shows
C12_Witness ==
    /\ Retornou("analise_temporal")
    /\ Len(df_processado) = 2
    /\ df_processado[1].date # df_processado[2].date
    /\ ret.vendas_dia_semana[1].num_vendas = 2
    /\ ret.vendas_dia_semana[2].num_vendas = NaN
    /\ ret.vendas_dia_semana[1].faturamento_total # Total(df_processado, "revenue")

\* the constructor raised: the last call is carregar_dados or preparar_dados and it failed
FalhouNaConstrucao == ret.erro # "" /\ ret.op \in {"carregar_dados", "preparar_dados"}

NadaProduzido == metricas = <<>> /\ insights = <<>> /\ arquivos = {} /\ calls = 0

\* C13: once carregar_dados or preparar_dados has failed, nothing follows: no stage of
\* executar_analise_completa starts, no method is called, loading is not tried again, and
\* no metric, insight or file has been produced
C13_FalhaEncerraSemSaida ==
    [][/\ ~FalhouNaConstrucao
       /\ FalhouNaConstrucao' => (pc' = "falhou" /\ NadaProduzido')]_vars

\* a date that cannot be parsed stops preparar_dados after the cleaning
C13_Witness ==
    /\ pc = "falhou"
    /\ ret.op = "preparar_dados"
    /\ ret.erro = "ValueError"
    /\ df_processado # <<>>
    /\ NadaProduzido

\* the stages of executar_analise_completa in the order of lines 584-592
Estagios ==
    <<"exec_metricas", "exec_produto", "exec_regiao", "exec_temporal", "exec_cruzada",
      "exec_padroes", "exec_visualizacoes", "exec_relatorio", "exec_exportar">>

ProximoEstagio(e) ==
    LET p == CHOOSE q \in 1..Len(Estagios) : Estagios[q] = e
    IN  IF p = Len(Estagios) THEN "concluido" ELSE Estagios[p + 1]

\* C14: on a prepared table that is not empty, every stage of executar_analise_completa
\* ends by handing over to the next stage of the fixed order, and the last one to the
\* success banner: no stage stops the run
C14_EstagiosEmOrdemAteOFim ==
    [][(pc \in Range(Estagios) /\ TemRegiao /\ ~Vazia) => pc' = ProximoEstagio(pc)]_vars

\* the step is a call of the method op that returned (not the entry into
\* executar_analise_completa, which calls nothing yet)
Chamou(op) ==
    /\ pc \notin {"novo", "carregado"}
    /\ ~(pc = "pronto" /\ pc' = "exec_metricas")
    /\ ret'.op = op
    /\ ret'.erro = ""

\* the number of insights that a call of op that returns appends
AcrescimoDe(op, fora) ==
    IF op = "analise_por_produto" THEN 2
    ELSE IF op \in {"analise_por_regiao", "analise_temporal"} THEN 1
    ELSE IF op = "identificar_padroes" THEN (IF fora # <<>> THEN 1 ELSE 0)
    ELSE IF op \in {"gerar_relatorio", "exportar_resultados"} THEN 3
    ELSE 0

\* C15: insights only grows at its end: every step keeps the insights collected so far
\* in place, and a call that returns appends 2 for analise_por_produto, 1 for
\* analise_por_regiao and for analise_temporal, 1 for identificar_padroes exactly when
\* there are outliers, 3 for gerar_relatorio and for exportar_resultados, and none for
\* the other methods
C15_InsightsSoCrescem ==
    [][/\ Len(insights') >= Len(insights)
       /\ SubSeq(insights', 1, Len(insights)) = insights
       /\ \A op \in {"calcular_metricas_gerais", "analise_por_produto", "analise_por_regiao",
                      "analise_temporal", "analise_cruzada", "identificar_padroes",
                      "gerar_relatorio", "exportar_resultados"} :
              Chamou(op) =>
                  Len(insights') = Len(insights) + AcrescimoDe(op, Outliers(df_processado))]_vars

\* analise_por_produto was called and then gerar_relatorio, which lists the two findings
\* collected so far and then collects them again, followed by the finding of the regions
C15_Witness ==
    /\ Retornou("gerar_relatorio")
    /\ Len(ret.valor.insights) = 2
    /\ Len(insights) = 5
    /\ SubSeq(insights, 1, 2) = SubSeq(insights, 3, 4)
    /\ insights[1].tipo = "produto_top"
    /\ insights[5].tipo = "regiao_lider"

====
